---- MODULE Spec2Model ----
(***************************************************************************)
(* State-machine model of the geocoin game: the Board (cell grid and cache *)
(* momento store), the Player, the GameState controller (save, load,       *)
(* reset) and the handlers of main.ts that drive them.                     *)
(*                                                                         *)
(* Coordinates are integers in units of half a tile (TILE_WIDTH is 2       *)
(* units), so that Math.floor(lat / tileWidth) is a real floor division    *)
(* and the player origin lies inside a cell with a negative longitude      *)
(* index, as in the program.  luck() values are integers in thousandths.   *)
(* Strings (store keys, momentos) are sequences of string tokens.          *)
(***************************************************************************)
EXTENDS Integers, Sequences, FiniteSets, TLC

VARIABLES
    location,      \* Player.location
    inventory,     \* Player.inventory
    moveHistory,   \* Player.moveHistory
    cacheStates,   \* Board.cacheStates : Map<string, string>
    cacheObjs,     \* the Cache object captured by each rectangle's popup closure
    popupCell,     \* cell whose popup is open (<<>> when none, else <<cell>>)
    buttons,       \* coins that have a live collect button in the open popup
    storage,       \* localStorage: <<>> when empty, else <<record>>
    running,       \* FALSE when main.ts stopped at an uncaught error in launchGame
    loaded,        \* TRUE when load() found a record at the start of this session
    saved,         \* player and cacheStates as they were at the last save (<<>> when
                   \* localStorage holds no record)
    visited,       \* locations at which showNearbyCaches has run in this session
    steps,         \* number of handlers run so far
    pending,       \* events the browser has queued for the page, oldest first
    active,        \* next statement of each movement handler that has begun
    expected,      \* <<>>, or <<the world as the begun handlers leave it when
                   \* each of them runs alone, in the order they began>>
    knownCells,    \* Board.knownCells of a Board whose methods are called on
                   \* their own (the game reads only i and j of a cell)
    lastCall       \* <<>>, or <<the last such call: method, point, cells returned>>

vars == <<location, inventory, moveHistory, cacheStates, cacheObjs,
          popupCell, buttons, storage, running, loaded, saved, visited, steps,
          pending, active, expected, knownCells, lastCall>>

\* the variables of the event loop, and those of the Board called on its own
eventVars == <<pending, active, expected>>

boardVars == <<knownCells, lastCall>>

----------------------------------------------------------------------------
(* Bounds of the model *)

MaxSteps == 4
Radius == 1
\* the player stays within these distances (in coordinate units) of the origin
SouthSpan == 1
NorthSpan == 2
WestSpan == 1
EastSpan == 0

----------------------------------------------------------------------------
(* Tunable gameplay parameters (main.ts) *)

TILE_WIDTH == 2
TILE_DEGREES == TILE_WIDTH
TILE_VISIBILITY_RADIUS == Radius
CACHE_SPAWN_PROBABILITY == 100
PLAYER_ORIGIN == [lat |-> 1, lng |-> -1]

Directions ==
    { [vertical |-> 1, horizontal |-> 0], [vertical |-> -1, horizontal |-> 0],
      [vertical |-> 0, horizontal |-> -1], [vertical |-> 0, horizontal |-> 1] }

InRegion(p) ==
    /\ p.lat >= PLAYER_ORIGIN.lat - SouthSpan
    /\ p.lat <= PLAYER_ORIGIN.lat + NorthSpan
    /\ p.lng >= PLAYER_ORIGIN.lng - WestSpan
    /\ p.lng <= PLAYER_ORIGIN.lng + EastSpan

\* position samples the sensor may deliver
SensorPoints == {[lat |-> 3, lng |-> -1]}

----------------------------------------------------------------------------
(* Strings *)

\* the decimal numerals of -9 .. 9
Numerals ==
    <<"-9", "-8", "-7", "-6", "-5", "-4", "-3", "-2", "-1", "0",
      "1", "2", "3", "4", "5", "6", "7", "8", "9">>

NumStr(n) == Numerals[n + 10]

StrNum(s) ==
    CASE s = "-9" -> -9 [] s = "-8" -> -8 [] s = "-7" -> -7 [] s = "-6" -> -6
      [] s = "-5" -> -5 [] s = "-4" -> -4 [] s = "-3" -> -3 [] s = "-2" -> -2
      [] s = "-1" -> -1 [] s = "0" -> 0 [] s = "1" -> 1 [] s = "2" -> 2
      [] s = "3" -> 3 [] s = "4" -> 4 [] s = "5" -> 5 [] s = "6" -> 6
      [] s = "7" -> 7 [] s = "8" -> 8 [] s = "9" -> 9

----------------------------------------------------------------------------
(* luck.ts: deterministic hash of a key, in thousandths *)

luck(key) ==
    CASE key = <<"-1", ",", "-1">> -> 37
      [] key = <<"-1", ",", "-1", ",", "coins">> -> 290
      [] key = <<"2", ",", "-1">> -> 81
      [] key = <<"2", ",", "-1", ",", "coins">> -> 130
      [] key = <<"0", ",", "0">> -> 12
      [] key = <<"0", ",", "0", ",", "coins">> -> 45
      [] OTHER -> 500

----------------------------------------------------------------------------
(* cache.ts *)

Coin(i, j, serial) == [i |-> i, j |-> j, serial |-> serial]

NewCache(i, j) == [i |-> i, j |-> j, coins |-> <<>>]

RECURSIVE CoinTokens(_)
CoinTokens(coins) ==
    IF coins = <<>> THEN <<>>
    ELSE <<NumStr(Head(coins).i), NumStr(Head(coins).j), Head(coins).serial>>
         \o CoinTokens(Tail(coins))

toMomento(cache) ==
    <<"{", NumStr(cache.i), NumStr(cache.j)>> \o CoinTokens(cache.coins) \o <<"}">>

\* variant of fromMomento that reads the two coordinates in the wrong order
fromMomentoSwapped(cache, momento) ==
    [i |-> StrNum(momento[3]),
     j |-> StrNum(momento[2]),
     coins |-> [n \in 1..((Len(momento) - 4) \div 3) |->
                  [i |-> StrNum(momento[3 * n + 1]),
                   j |-> StrNum(momento[3 * n + 2]),
                   serial |-> momento[3 * n + 3]]]]

fromMomento(cache, momento) ==
    [i |-> StrNum(momento[2]),
     j |-> StrNum(momento[3]),
     coins |-> [n \in 1..((Len(momento) - 4) \div 3) |->
                  [i |-> StrNum(momento[3 * n + 1]),
                   j |-> StrNum(momento[3 * n + 2]),
                   serial |-> momento[3 * n + 3]]]]

----------------------------------------------------------------------------
(* prefabs/board.ts *)

\* variant of Floor that rounds towards zero, as Math.trunc does
MathTrunc(a, b) == IF a >= 0 THEN a \div b ELSE -((-a) \div b)

Floor(a, b) == a \div b

getCellForPoint(point) ==
    [i |-> Floor(point.lat, TILE_WIDTH), j |-> Floor(point.lng, TILE_WIDTH)]

Min(a, b) == IF a <= b THEN a ELSE b

Max(a, b) == IF a >= b THEN a ELSE b

\* leaflet.latLngBounds of two corners: the smallest rectangle with both
latLngBounds(a, b) ==
    [southwest |-> [lat |-> Min(a.lat, b.lat), lng |-> Min(a.lng, b.lng)],
     northeast |-> [lat |-> Max(a.lat, b.lat), lng |-> Max(a.lng, b.lng)]]

\* variant of getCellBounds that takes the row for the longitude and the
\* column for the latitude
getCellBoundsTransposed(cell) ==
    latLngBounds([lat |-> cell.j * TILE_WIDTH, lng |-> cell.i * TILE_WIDTH],
                 [lat |-> (cell.j + 1) * TILE_WIDTH, lng |-> (cell.i + 1) * TILE_WIDTH])

getCellBounds(cell) ==
    latLngBounds([lat |-> cell.i * TILE_WIDTH, lng |-> cell.j * TILE_WIDTH],
                 [lat |-> (cell.i + 1) * TILE_WIDTH, lng |-> (cell.j + 1) * TILE_WIDTH])

\* variant of CellRow whose loop ends one column early (y < radius)
RECURSIVE CellRowExclusive(_, _, _)
CellRowExclusive(originCell, x, y) ==
    IF y >= TILE_VISIBILITY_RADIUS THEN <<>>
    ELSE <<[i |-> originCell.i + x, j |-> originCell.j + y]>>
         \o CellRowExclusive(originCell, x, y + 1)

RECURSIVE CellRow(_, _, _)
CellRow(originCell, x, y) ==
    IF y > TILE_VISIBILITY_RADIUS THEN <<>>
    ELSE <<[i |-> originCell.i + x, j |-> originCell.j + y]>>
         \o CellRow(originCell, x, y + 1)

RECURSIVE CellRows(_, _)
CellRows(originCell, x) ==
    IF x > TILE_VISIBILITY_RADIUS THEN <<>>
    ELSE CellRow(originCell, x, -TILE_VISIBILITY_RADIUS) \o CellRows(originCell, x + 1)

getCellsNearPoint(point) == CellRows(getCellForPoint(point), -TILE_VISIBILITY_RADIUS)

CellKey(i, j) == <<NumStr(i), ",", NumStr(j)>>

\* variant of setCache that keeps an entry already stored under the key
setCacheKeepFirst(store, i, j, cache) ==
    [k \in DOMAIN store \cup {CellKey(i, j)} |->
        IF k \in DOMAIN store THEN store[k] ELSE toMomento(cache)]

setCache(store, i, j, cache) ==
    [k \in DOMAIN store \cup {CellKey(i, j)} |->
        IF k = CellKey(i, j) THEN toMomento(cache) ELSE store[k]]

\* variant of getCache that reports a stored cache without coins as absent
getCacheEmptyIsAbsent(store, i, j) ==
    IF /\ CellKey(i, j) \in DOMAIN store
       /\ fromMomento(NewCache(i, j), store[CellKey(i, j)]).coins # <<>>
    THEN <<fromMomento(NewCache(i, j), store[CellKey(i, j)])>>
    ELSE <<>>

\* Cache | null, as a sequence of length 1 or 0
getCache(store, i, j) ==
    IF CellKey(i, j) \in DOMAIN store
    THEN <<fromMomento(NewCache(i, j), store[CellKey(i, j)])>>
    ELSE <<>>

\* Map.forEach passes (value, key): the callback's first parameter, named key,
\* receives the stored value and its second, named momento, receives the map key
getCacheData(store) ==
    { [key |-> store[k], momento |-> k] : k \in DOMAIN store }

setCacheStates(store, caches) ==
    [k \in DOMAIN store \cup {c.key : c \in caches} |->
        IF \E c \in caches : c.key = k
        THEN (CHOOSE c \in caches : c.key = k).momento
        ELSE store[k]]

EmptyMap == [k \in {} |-> <<>>]

\* the object an evaluation of the literal { i, j } creates: ref tells the
\* objects of different evaluations apart
CellObject(i, j, ref) == [i |-> i, j |-> j, ref |-> ref]

\* variant of getCanonicalCell that stores the cell it is given every time
getCanonicalCellOverwrite(known, cell) ==
    LET key == CellKey(cell.i, cell.j)
    IN [known |-> [k \in DOMAIN known \cup {key} |->
                      IF k = key THEN cell ELSE known[k]],
        cell |-> cell]

getCanonicalCell(known, cell) ==
    LET key == CellKey(cell.i, cell.j)
    IN IF key \notin DOMAIN known
       THEN [known |-> [k \in DOMAIN known \cup {key} |->
                          IF k = key THEN cell ELSE known[k]],
             cell |-> cell]
       ELSE [known |-> known, cell |-> known[key]]

\* getCellForPoint with the map of known cells and the Cell object returned;
\* call numbers the call whose literals are evaluated
knownCellForPoint(known, point, call) ==
    LET c == getCellForPoint(point)
    IN getCanonicalCell(known, CellObject(c.i, c.j, <<call, 0>>))

\* resultCells.push(getCanonicalCell({...})) for the literals from the n-th on
RECURSIVE pushCanonical(_, _, _, _)
pushCanonical(r, literals, call, n) ==
    IF n > Len(literals) THEN r
    ELSE LET c == getCanonicalCell(r.known,
                      CellObject(literals[n].i, literals[n].j, <<call, n>>))
         IN pushCanonical([known |-> c.known, cells |-> Append(r.cells, c.cell)],
                          literals, call, n + 1)

\* getCellsNearPoint with the map of known cells and the Cell objects returned
knownCellsNearPoint(known, point, call) ==
    LET o == knownCellForPoint(known, point, call)
    IN pushCanonical([known |-> o.known, cells |-> <<>>],
                     CellRows(o.cell, -TILE_VISIBILITY_RADIUS), call, 1)

----------------------------------------------------------------------------
(* prefabs/player.ts *)

NewPlayer(initialLocation) ==
    [location |-> initialLocation, inventory |-> <<>>,
     moveHistory |-> <<initialLocation>>]

toJSON(p) ==
    [location |-> p.location, inventory |-> p.inventory, moveHistory |-> p.moveHistory]

\* variant of fromJSON that starts the move history anew at the loaded location
fromJSONFreshHistory(state) ==
    [location |-> state.location,
     moveHistory |-> <<state.location>>,
     inventory |-> [n \in 1..Len(state.inventory) |->
                      Coin(state.inventory[n].i, state.inventory[n].j,
                           state.inventory[n].serial)]]

fromJSON(state) ==
    [location |-> state.location,
     moveHistory |-> state.moveHistory,
     inventory |-> [n \in 1..Len(state.inventory) |->
                      Coin(state.inventory[n].i, state.inventory[n].j,
                           state.inventory[n].serial)]]

ThePlayer == [location |-> location, inventory |-> inventory, moveHistory |-> moveHistory]

----------------------------------------------------------------------------
(* main.ts: world generation *)

\* variant of generateCoinsForCache that numbers the coins from 1
generateCoinsFromOne(i, j) ==
    LET numCoins == (luck(<<NumStr(i), ",", NumStr(j), ",", "coins">>) * 8) \div 1000
    IN [n \in 1..numCoins |-> Coin(i, j, NumStr(n))]

generateCoinsForCache(i, j) ==
    LET numCoins == (luck(<<NumStr(i), ",", NumStr(j), ",", "coins">>) * 8) \div 1000
    IN [n \in 1..numCoins |-> Coin(i, j, NumStr(n - 1))]

\* variant of spawnCache whose coin serials continue after the number of
\* caches spawned before
spawnCacheNumbered(w, i, j) ==
    LET offset == Cardinality(DOMAIN w.store)
        generated == generateCoinsForCache(i, j)
        cache == [NewCache(i, j) EXCEPT
                    !.coins = [n \in 1..Len(generated) |->
                                 Coin(i, j, NumStr(n - 1 + offset))]]
    IN [store |-> setCache(w.store, i, j, cache),
        objs |-> [c \in DOMAIN w.objs \cup {[i |-> i, j |-> j]} |->
                    IF c = [i |-> i, j |-> j] THEN cache ELSE w.objs[c]]]

\* board and popup objects after spawnCache(i, j)
spawnCache(w, i, j) ==
    LET cache == [NewCache(i, j) EXCEPT !.coins = generateCoinsForCache(i, j)]
    IN [store |-> setCache(w.store, i, j, cache),
        objs |-> [c \in DOMAIN w.objs \cup {[i |-> i, j |-> j]} |->
                    IF c = [i |-> i, j |-> j] THEN cache ELSE w.objs[c]]]

\* variant of the showNearbyCaches loop that spawns a lucky cell without
\* looking for a stored cache first
RECURSIVE ShowCellsRegenerate(_, _)
ShowCellsRegenerate(w, cells) ==
    IF cells = <<>> THEN w
    ELSE LET cell == Head(cells)
         IN ShowCellsRegenerate(
              IF luck(<<NumStr(cell.i), ",", NumStr(cell.j)>>) < CACHE_SPAWN_PROBABILITY
              THEN spawnCache(w, cell.i, cell.j)
              ELSE w,
              Tail(cells))

RECURSIVE ShowCells(_, _)
ShowCells(w, cells) ==
    IF cells = <<>> THEN w
    ELSE LET cell == Head(cells)
             cache == getCache(w.store, cell.i, cell.j)
         IN ShowCells(
              IF cache # <<>> THEN w
              ELSE IF luck(<<NumStr(cell.i), ",", NumStr(cell.j)>>) < CACHE_SPAWN_PROBABILITY
                   THEN spawnCache(w, cell.i, cell.j)
                   ELSE w,
              Tail(cells))

\* variant of showNearbyCaches that looks at the player's own cell only
showNearbyCachesOwnCell(store, objs, loc) ==
    ShowCells([store |-> store, objs |-> objs], <<getCellForPoint(loc)>>)

showNearbyCaches(store, objs, loc) ==
    ShowCells([store |-> store, objs |-> objs], getCellsNearPoint(loc))

----------------------------------------------------------------------------
(* gamestate.ts *)

save(p, store) == <<[player |-> toJSON(p), caches |-> getCacheData(store)]>>

\* texts under the storage key that save() did not write: one that is no
\* JSON, and the JSON text of null
ForeignTexts == {"not json", "null"}

IsForeign(item) == "raw" \in DOMAIN item

\* JSON.parse of a foreign text: <<>> for null, <<"SyntaxError">> when it throws
JSONparse(item) == IF item.raw = "null" THEN <<>> ELSE <<"SyntaxError">>

\* variant of load that treats a missing record as an error
loadRequiresRecord(p, store, data, markerThrows) ==
    IF data = <<>> THEN [player |-> p, store |-> store, ok |-> FALSE]
    ELSE LET gameState == data[1]
             restored == fromJSON(gameState.player)
         IN IF restored.moveHistory = <<>> /\ markerThrows
            THEN [player |-> restored, store |-> store, ok |-> FALSE]
            ELSE [player |-> restored,
                  store |-> setCacheStates(store, gameState.caches),
                  ok |-> TRUE]

\* result of load() on a fresh player and board; ok is FALSE when fromJSON
\* stops at updateMarker(undefined) (empty move history), which it may or may
\* not do depending on the map library
load(p, store, data, markerThrows) ==
    IF data = <<>> THEN [player |-> p, store |-> store, ok |-> TRUE]
    ELSE IF IsForeign(data[1])
    THEN [player |-> p, store |-> store, ok |-> JSONparse(data[1]) = <<>>]
    ELSE LET gameState == data[1]
             restored == fromJSON(gameState.player)
         IN IF restored.moveHistory = <<>> /\ markerThrows
            THEN [player |-> restored, store |-> store, ok |-> FALSE]
            ELSE [player |-> restored,
                  store |-> setCacheStates(store, gameState.caches),
                  ok |-> TRUE]

\* the forEach of reset(): ok is FALSE when setCache is reached with a null
\* cache (the coin's origin has no momento) and the loop stops there
RECURSIVE ReturnCoins(_, _)
ReturnCoins(store, coins) ==
    IF coins = <<>> THEN [store |-> store, ok |-> TRUE]
    ELSE LET coin == Head(coins)
             originalCache == getCache(store, coin.i, coin.j)
         IN IF originalCache = <<>> THEN [store |-> store, ok |-> FALSE]
            ELSE ReturnCoins(
                   setCache(store, coin.i, coin.j,
                            [originalCache[1] EXCEPT !.coins = Append(@, coin)]),
                   Tail(coins))

PlayerReset(initialLocation) ==
    [location |-> initialLocation, inventory |-> <<>>, moveHistory |-> <<>>]

----------------------------------------------------------------------------
(* Store observers used by the properties *)

\* cells that getCache can find: the keys of the form "i,j"
StoredCells(store) ==
    { [i |-> StrNum(k[1]), j |-> StrNum(k[3])] : k \in {x \in DOMAIN store : x[1] # "{"} }

CoinsAt(store, c) == getCache(store, c.i, c.j)[1].coins

RECURSIVE SumLen(_, _)
SumLen(store, cells) ==
    IF cells = {} THEN 0
    ELSE LET c == CHOOSE x \in cells : TRUE
         IN Len(CoinsAt(store, c)) + SumLen(store, cells \ {c})

TotalCoins(store, inv) == SumLen(store, StoredCells(store)) + Len(inv)

----------------------------------------------------------------------------
(* Handlers *)

\* main.ts top level: new Player, new Board, new GameState, launchGame()
Launch(data, markerThrows) ==
    LET l == load(NewPlayer(PLAYER_ORIGIN), EmptyMap, data, markerThrows)
        w == IF l.ok
             THEN showNearbyCaches(l.store, EmptyMap, l.player.location)
             ELSE [store |-> l.store, objs |-> EmptyMap]
    IN /\ location' = l.player.location
       /\ inventory' = l.player.inventory
       /\ moveHistory' = l.player.moveHistory
       /\ cacheStates' = w.store
       /\ cacheObjs' = w.objs
       /\ running' = l.ok
       /\ loaded' = (data # <<>>)
       /\ visited' = IF l.ok THEN {l.player.location} ELSE {}
       /\ popupCell' = <<>>
       /\ buttons' = <<>>

Init ==
    LET w == showNearbyCaches(EmptyMap, EmptyMap, PLAYER_ORIGIN)
    IN /\ location = PLAYER_ORIGIN
       /\ inventory = <<>>
       /\ moveHistory = <<PLAYER_ORIGIN>>
       /\ cacheStates = w.store
       /\ cacheObjs = w.objs
       /\ popupCell = <<>>
       /\ buttons = <<>>
       /\ storage = <<>>
       /\ running = TRUE
       /\ loaded = FALSE
       /\ saved = <<>>
       /\ visited = {PLAYER_ORIGIN}
       /\ steps = 0
       /\ pending = <<>>
       /\ active = <<>>
       /\ expected = <<>>
       /\ knownCells = EmptyMap
       /\ lastCall = <<>>

\* the page is closed and opened again; localStorage survives
Restart ==
    /\ steps < MaxSteps
    /\ steps' = steps + 1
    /\ \E markerThrows \in BOOLEAN : Launch(storage, markerThrows)
    /\ UNCHANGED <<storage, saved, eventVars, boardVars>>

\* the rectangle of a cache spawned in this session is clicked: the popup
\* content is built from the closure's Cache object
OpenPopup(cell) ==
    /\ running
    /\ cell \in DOMAIN cacheObjs
    /\ popupCell' = <<cell>>
    /\ buttons' = cacheObjs[cell].coins
    /\ UNCHANGED <<location, inventory, moveHistory, cacheStates, cacheObjs,
                   storage, running, loaded, saved, visited, steps, eventVars, boardVars>>

\* gameState.save() as the last statement of a handler
Save ==
    /\ storage' = save([location |-> location', inventory |-> inventory',
                        moveHistory |-> moveHistory'], cacheStates')
    /\ saved' = <<[player |-> [location |-> location', inventory |-> inventory',
                               moveHistory |-> moveHistory'],
                   store |-> cacheStates']>>

\* variant of Relocate that saves before the caches in view are generated
RelocateSaveFirst(newLocation) ==
    LET w == showNearbyCaches(cacheStates, cacheObjs, newLocation)
    IN /\ location' = newLocation
       /\ moveHistory' = Append(moveHistory, newLocation)
       /\ cacheStates' = w.store
       /\ cacheObjs' = w.objs
       /\ visited' = visited \cup {newLocation}
       /\ UNCHANGED <<inventory, popupCell, buttons, running, loaded, eventVars, boardVars>>
       /\ steps' = steps + 1
       /\ storage' = save([location |-> location', inventory |-> inventory',
                           moveHistory |-> moveHistory'], cacheStates)
       /\ saved' = <<[player |-> [location |-> location', inventory |-> inventory',
                                  moveHistory |-> moveHistory'],
                      store |-> cacheStates]>>

\* variant of Relocate whose moveTo writes the new location over the last
\* entry of the move history
RelocateReplaceLast(newLocation) ==
    LET w == showNearbyCaches(cacheStates, cacheObjs, newLocation)
    IN /\ location' = newLocation
       /\ moveHistory' = SubSeq(moveHistory, 1, Len(moveHistory) - 1) \o <<newLocation>>
       /\ cacheStates' = w.store
       /\ cacheObjs' = w.objs
       /\ visited' = visited \cup {newLocation}
       /\ UNCHANGED <<inventory, popupCell, buttons, running, loaded, eventVars, boardVars>>
       /\ steps' = steps + 1
       /\ Save

\* moveTo, showNearbyCaches, save
Relocate(newLocation) ==
    LET w == showNearbyCaches(cacheStates, cacheObjs, newLocation)
    IN /\ location' = newLocation
       /\ moveHistory' = Append(moveHistory, newLocation)
       /\ cacheStates' = w.store
       /\ cacheObjs' = w.objs
       /\ visited' = visited \cup {newLocation}
       /\ UNCHANGED <<inventory, popupCell, buttons, running, loaded, eventVars, boardVars>>
       /\ steps' = steps + 1
       /\ Save

movePlayer(deltaLat, deltaLng) ==
    LET newLocation == [lat |-> location.lat + TILE_DEGREES * deltaLat,
                        lng |-> location.lng + TILE_DEGREES * deltaLng]
    IN /\ running
       /\ steps < MaxSteps
       /\ InRegion(newLocation)
       /\ Relocate(newLocation)

MovePlayer == \E d \in Directions : movePlayer(d.vertical, d.horizontal)

\* navigator.geolocation.watchPosition callback
watchPosition(newLocation) ==
    /\ running
    /\ steps < MaxSteps
    /\ Relocate(newLocation)

RemoveAt(s, n) == SubSeq(s, 1, n - 1) \o SubSeq(s, n + 1, Len(s))

KeepOthers(coins, coin) ==
    LET keep(c) == c.serial # coin.serial IN SelectSeq(coins, keep)

\* variant of collectCoin that does not write the mutated cache to the board
collectCoinNoSetCache(n) ==
    /\ running
    /\ steps < MaxSteps
    /\ popupCell # <<>>
    /\ n \in 1..Len(buttons)
    /\ UNCHANGED <<location, moveHistory, popupCell, running, loaded, visited,
                 cacheStates, eventVars, boardVars>>
    /\ steps' = steps + 1
    /\ LET coin == buttons[n]
           cache == cacheObjs[popupCell[1]]
           newCache == [cache EXCEPT !.coins = KeepOthers(cache.coins, coin)]
       IN /\ inventory' = Append(inventory, coin)
          /\ cacheObjs' = [cacheObjs EXCEPT ![popupCell[1]] = newCache]
          /\ buttons' = RemoveAt(buttons, n)
          /\ Save

\* click on the n-th collect button of the open popup
collectCoin(n) ==
    /\ running
    /\ steps < MaxSteps
    /\ popupCell # <<>>
    /\ n \in 1..Len(buttons)
    /\ UNCHANGED <<location, moveHistory, popupCell, running, loaded, visited, eventVars, boardVars>>
    /\ steps' = steps + 1
    /\ LET coin == buttons[n]
           cache == cacheObjs[popupCell[1]]
           newCache == [cache EXCEPT !.coins = KeepOthers(cache.coins, coin)]
       IN /\ inventory' = Append(inventory, coin)
          /\ cacheObjs' = [cacheObjs EXCEPT ![popupCell[1]] = newCache]
          /\ cacheStates' = setCache(cacheStates, cache.i, cache.j, newCache)
          /\ buttons' = RemoveAt(buttons, n)
          /\ Save

CollectCoin == \E n \in 1..Len(buttons) : collectCoin(n)

\* variant of depositCoin that takes the oldest coin of the inventory
depositCoinOldest ==
    /\ running
    /\ steps < MaxSteps
    /\ popupCell # <<>>
    /\ IF Len(inventory) > 0
       THEN LET depositedCoin == inventory[1]
                cache == cacheObjs[popupCell[1]]
                newCache == [cache EXCEPT !.coins = Append(@, depositedCoin)]
            IN /\ inventory' = Tail(inventory)
               /\ cacheObjs' = [cacheObjs EXCEPT ![popupCell[1]] = newCache]
               /\ cacheStates' = setCache(cacheStates, cache.i, cache.j, newCache)
               /\ buttons' = Append(buttons, depositedCoin)
               /\ UNCHANGED <<location, moveHistory, popupCell, running, loaded, visited, eventVars, boardVars>>
               /\ steps' = steps + 1
               /\ Save
       ELSE UNCHANGED vars

\* variant of depositCoin without the test of the inventory length: the
\* pop of an empty inventory yields no coin, and a placeholder goes to the cache
depositCoinUnguarded ==
    /\ running
    /\ steps < MaxSteps
    /\ popupCell # <<>>
    /\ LET depositedCoin == IF Len(inventory) > 0 THEN inventory[Len(inventory)]
                            ELSE Coin(0, 0, "null")
           cache == cacheObjs[popupCell[1]]
           newCache == [cache EXCEPT !.coins = Append(@, depositedCoin)]
       IN /\ inventory' = SubSeq(inventory, 1, Len(inventory) - 1)
          /\ cacheObjs' = [cacheObjs EXCEPT ![popupCell[1]] = newCache]
          /\ cacheStates' = setCache(cacheStates, cache.i, cache.j, newCache)
          /\ buttons' = Append(buttons, depositedCoin)
          /\ UNCHANGED <<location, moveHistory, popupCell, running, loaded, visited, eventVars, boardVars>>
          /\ steps' = steps + 1
          /\ Save

\* click on the deposit button of the open popup
depositCoin ==
    /\ running
    /\ steps < MaxSteps
    /\ popupCell # <<>>
    /\ IF Len(inventory) > 0
       THEN LET depositedCoin == inventory[Len(inventory)]
                cache == cacheObjs[popupCell[1]]
                newCache == [cache EXCEPT !.coins = Append(@, depositedCoin)]
            IN /\ inventory' = SubSeq(inventory, 1, Len(inventory) - 1)
               /\ cacheObjs' = [cacheObjs EXCEPT ![popupCell[1]] = newCache]
               /\ cacheStates' = setCache(cacheStates, cache.i, cache.j, newCache)
               /\ buttons' = Append(buttons, depositedCoin)
               /\ UNCHANGED <<location, moveHistory, popupCell, running, loaded, visited, eventVars, boardVars>>
               /\ steps' = steps + 1
               /\ Save
       ELSE UNCHANGED vars

\* variant of reset in which getCache hands out the Cache object that the
\* popup closure of the cell holds, so that the coins pushed by reset show up
\* in that object too
resetSharedObjects ==
    /\ running
    /\ steps < MaxSteps
    /\ LET r == ReturnCoins(cacheStates, inventory)
       IN /\ cacheStates' = r.store
          /\ cacheObjs' = [c \in DOMAIN cacheObjs |->
                             IF getCache(r.store, c.i, c.j) # <<>>
                             THEN getCache(r.store, c.i, c.j)[1]
                             ELSE cacheObjs[c]]
          /\ IF r.ok
             THEN /\ location' = PlayerReset(PLAYER_ORIGIN).location
                  /\ inventory' = PlayerReset(PLAYER_ORIGIN).inventory
                  /\ moveHistory' = PlayerReset(PLAYER_ORIGIN).moveHistory
                  /\ storage' = <<>>
                  /\ saved' = <<>>
             ELSE UNCHANGED <<location, inventory, moveHistory, storage, saved>>
    /\ steps' = steps + 1
    /\ UNCHANGED <<popupCell, buttons, running, loaded, visited, eventVars, boardVars>>

\* variant of reset that writes a new record after it has cleared the storage
resetSavesAgain ==
    /\ running
    /\ steps < MaxSteps
    /\ LET r == ReturnCoins(cacheStates, inventory)
       IN /\ cacheStates' = r.store
          /\ IF r.ok
             THEN /\ location' = PlayerReset(PLAYER_ORIGIN).location
                  /\ inventory' = PlayerReset(PLAYER_ORIGIN).inventory
                  /\ moveHistory' = PlayerReset(PLAYER_ORIGIN).moveHistory
                  /\ Save
             ELSE UNCHANGED <<location, inventory, moveHistory, storage, saved>>
    /\ steps' = steps + 1
    /\ UNCHANGED <<cacheObjs, popupCell, buttons, running, loaded, visited, eventVars, boardVars>>

\* variant of reset that starts the store anew, as a new Board would
resetForgetsCaches ==
    /\ running
    /\ steps < MaxSteps
    /\ LET r == ReturnCoins(cacheStates, inventory)
       IN IF r.ok
          THEN /\ cacheStates' = EmptyMap
               /\ location' = PlayerReset(PLAYER_ORIGIN).location
               /\ inventory' = PlayerReset(PLAYER_ORIGIN).inventory
               /\ moveHistory' = PlayerReset(PLAYER_ORIGIN).moveHistory
               /\ storage' = <<>>
               /\ saved' = <<>>
          ELSE /\ cacheStates' = r.store
               /\ UNCHANGED <<location, inventory, moveHistory, storage, saved>>
    /\ steps' = steps + 1
    /\ UNCHANGED <<cacheObjs, popupCell, buttons, running, loaded, visited, eventVars, boardVars>>

\* reset button, prompt answered yes: gameState.reset(PLAYER_ORIGIN)
reset ==
    /\ running
    /\ steps < MaxSteps
    /\ LET r == ReturnCoins(cacheStates, inventory)
       IN /\ cacheStates' = r.store
          /\ IF r.ok
             THEN /\ location' = PlayerReset(PLAYER_ORIGIN).location
                  /\ inventory' = PlayerReset(PLAYER_ORIGIN).inventory
                  /\ moveHistory' = PlayerReset(PLAYER_ORIGIN).moveHistory
                  /\ storage' = <<>>
                  /\ saved' = <<>>
             ELSE UNCHANGED <<location, inventory, moveHistory, storage, saved>>
    /\ steps' = steps + 1
    /\ UNCHANGED <<cacheObjs, popupCell, buttons, running, loaded, visited, eventVars, boardVars>>

Next ==
    \/ Restart
    \/ \E cell \in DOMAIN cacheObjs : OpenPopup(cell)
    \/ MovePlayer
    \/ \E p \in SensorPoints : watchPosition(p)
    \/ CollectCoin
    \/ depositCoin
    \/ reset

Spec == Init /\ [][Next]_vars

\* something other than save() puts a text under the storage key
foreignWrite(text) ==
    /\ steps < MaxSteps
    /\ steps' = steps + 1
    /\ storage' = <<[raw |-> text]>>
    /\ saved' = <<>>
    /\ UNCHANGED <<location, inventory, moveHistory, cacheStates, cacheObjs,
                   popupCell, buttons, running, loaded, visited, eventVars, boardVars>>

NextForeign ==
    \/ Next
    \/ \E text \in ForeignTexts : foreignWrite(text)

\* the game with a storage that other code can write to
SpecForeign == Init /\ [][NextForeign]_vars

----------------------------------------------------------------------------
(* The movement handlers statement by statement, under the browser's event
   loop: clicks and sensor readings arrive at any moment and wait in a queue *)

MaxPending == 1

Events ==
    { [type |-> "move", vertical |-> d.vertical, horizontal |-> d.horizontal] :
        d \in Directions }
    \cup [type : {"sensor"}, point : SensorPoints]

\* the location a movement event asks for: movePlayer adds to the player's
\* location at the time it runs, the sensor callback takes the sensor's
target(e, from) ==
    IF e.type = "move"
    THEN [lat |-> from.lat + TILE_DEGREES * e.vertical,
          lng |-> from.lng + TILE_DEGREES * e.horizontal]
    ELSE e.point

TheWorld(l, i, h, cs, co, st, sv, vi) ==
    [location |-> l, inventory |-> i, moveHistory |-> h, cacheStates |-> cs,
     cacheObjs |-> co, storage |-> st, saved |-> sv, visited |-> vi]

\* movePlayer or the sensor callback run from its first statement to its last
\* with nothing in between: moveTo, showNearbyCaches, save
completeHandler(w, e) ==
    LET newLocation == target(e, w.location)
        history == Append(w.moveHistory, newLocation)
        shown == showNearbyCaches(w.cacheStates, w.cacheObjs, newLocation)
        p == [location |-> newLocation, inventory |-> w.inventory,
              moveHistory |-> history]
    IN TheWorld(newLocation, w.inventory, history, shown.store, shown.objs,
                save(p, shown.store), <<[player |-> p, store |-> shown.store]>>,
                w.visited \cup {newLocation})

\* variant of handlerMayStart: a callback may begin while another has not
\* reached its last statement
handlerMayStartAnytime == TRUE

\* the callbacks are synchronous functions: the event loop begins one only
\* when no other is in progress
handlerMayStart == active = <<>>

\* a click on a direction button or a reading of the position sensor arrives
post(e) ==
    /\ running
    /\ steps < MaxSteps
    /\ Len(pending) < MaxPending
    /\ pending' = Append(pending, e)
    /\ UNCHANGED <<location, inventory, moveHistory, cacheStates, cacheObjs,
                   popupCell, buttons, storage, running, loaded, saved, visited,
                   steps, active, expected, boardVars>>

\* the event loop takes the oldest event and begins its handler, which runs
\* its first statement, player.moveTo(newLocation)
beginHandler ==
    /\ running
    /\ steps < MaxSteps
    /\ handlerMayStart
    /\ pending # <<>>
    /\ LET e == Head(pending)
           newLocation == target(e, location)
       IN /\ InRegion(newLocation)
          /\ location' = newLocation
          /\ moveHistory' = Append(moveHistory, newLocation)
          /\ expected' =
                <<completeHandler(IF expected = <<>>
                                  THEN TheWorld(location, inventory, moveHistory,
                                                cacheStates, cacheObjs, storage,
                                                saved, visited)
                                  ELSE expected[1], e)>>
    /\ pending' = Tail(pending)
    /\ active' = Append(active, "showNearbyCaches")
    /\ steps' = steps + 1
    /\ UNCHANGED <<inventory, cacheStates, cacheObjs, popupCell, buttons, storage,
                   running, loaded, saved, visited, boardVars>>

\* the k-th handler in progress runs its next statement
continueHandler(k) ==
    /\ k \in 1..Len(active)
    /\ IF active[k] = "showNearbyCaches"
       THEN LET shown == showNearbyCaches(cacheStates, cacheObjs, location)
            IN /\ cacheStates' = shown.store
               /\ cacheObjs' = shown.objs
               /\ visited' = visited \cup {location}
               /\ active' = [active EXCEPT ![k] = "save"]
               /\ UNCHANGED <<location, inventory, moveHistory, storage, saved,
                              expected>>
       ELSE /\ UNCHANGED <<location, inventory, moveHistory, cacheStates, cacheObjs,
                           visited>>
            /\ active' = RemoveAt(active, k)
            /\ expected' = IF active' = <<>> THEN <<>> ELSE expected
            /\ Save
    /\ UNCHANGED <<popupCell, buttons, running, loaded, steps, pending, boardVars>>

\* a click whose handler is one synchronous call: it runs when the loop is free
otherHandler ==
    /\ handlerMayStart
    /\ \/ \E cell \in DOMAIN cacheObjs : OpenPopup(cell)
       \/ CollectCoin
       \/ depositCoin
       \/ reset

NextEvents ==
    \/ \E e \in Events : post(e)
    \/ beginHandler
    \/ \E k \in 1..Len(active) : continueHandler(k)
    \/ otherHandler

\* the game of one page session with its events queued by the browser
SpecEvents == Init /\ [][NextEvents]_vars

----------------------------------------------------------------------------
(* A Board whose methods are called on their own, with any of a few points
   in any order *)

BoardPoints ==
    { [lat |-> 1, lng |-> -1], [lat |-> 0, lng |-> -2],
      [lat |-> 3, lng |-> -1], [lat |-> -3, lng |-> 2] }

gameVars == <<location, inventory, moveHistory, cacheStates, cacheObjs, popupCell,
              buttons, storage, running, loaded, saved, visited>>

callGetCellForPoint(point) ==
    /\ steps < MaxSteps
    /\ steps' = steps + 1
    /\ LET r == knownCellForPoint(knownCells, point, steps)
       IN /\ knownCells' = r.known
          /\ lastCall' = <<[method |-> "getCellForPoint", point |-> point,
                            cells |-> <<r.cell>>]>>
    /\ UNCHANGED <<gameVars, eventVars>>

callGetCellsNearPoint(point) ==
    /\ steps < MaxSteps
    /\ steps' = steps + 1
    /\ LET r == knownCellsNearPoint(knownCells, point, steps)
       IN /\ knownCells' = r.known
          /\ lastCall' = <<[method |-> "getCellsNearPoint", point |-> point,
                            cells |-> r.cells]>>
    /\ UNCHANGED <<gameVars, eventVars>>

\* the cell of a point is looked up and its rectangle is computed
callGetCellBounds(point) ==
    /\ steps < MaxSteps
    /\ steps' = steps + 1
    /\ LET r == knownCellForPoint(knownCells, point, steps)
       IN /\ knownCells' = r.known
          /\ lastCall' = <<[method |-> "getCellBounds", point |-> point,
                            cells |-> <<r.cell>>, bounds |-> getCellBounds(r.cell)]>>
    /\ UNCHANGED <<gameVars, eventVars>>

NextBoard ==
    \/ \E point \in BoardPoints : callGetCellForPoint(point)
    \/ \E point \in BoardPoints : callGetCellsNearPoint(point)
    \/ \E point \in BoardPoints : callGetCellBounds(point)

SpecBoard == Init /\ [][NextBoard]_vars

----------------------------------------------------------------------------
(* One page session with the Board's map of known cells: showNearbyCaches
   asks the Board for the cells near the player *)

InitSession ==
    LET w == showNearbyCaches(EmptyMap, EmptyMap, PLAYER_ORIGIN)
        near == knownCellsNearPoint(EmptyMap, PLAYER_ORIGIN, 0)
    IN /\ location = PLAYER_ORIGIN
       /\ inventory = <<>>
       /\ moveHistory = <<PLAYER_ORIGIN>>
       /\ cacheStates = w.store
       /\ cacheObjs = w.objs
       /\ popupCell = <<>>
       /\ buttons = <<>>
       /\ storage = <<>>
       /\ running = TRUE
       /\ loaded = FALSE
       /\ saved = <<>>
       /\ visited = {PLAYER_ORIGIN}
       /\ steps = 0
       /\ pending = <<>>
       /\ active = <<>>
       /\ expected = <<>>
       /\ knownCells = near.known
       /\ lastCall = <<[method |-> "getCellsNearPoint", point |-> PLAYER_ORIGIN,
                        cells |-> near.cells]>>

\* moveTo, showNearbyCaches with its call of board.getCellsNearPoint, save
RelocateOnBoard(newLocation) ==
    LET w == showNearbyCaches(cacheStates, cacheObjs, newLocation)
        near == knownCellsNearPoint(knownCells, newLocation, steps + 1)
    IN /\ location' = newLocation
       /\ moveHistory' = Append(moveHistory, newLocation)
       /\ cacheStates' = w.store
       /\ cacheObjs' = w.objs
       /\ visited' = visited \cup {newLocation}
       /\ knownCells' = near.known
       /\ lastCall' = <<[method |-> "getCellsNearPoint", point |-> newLocation,
                         cells |-> near.cells]>>
       /\ UNCHANGED <<inventory, popupCell, buttons, running, loaded, eventVars>>
       /\ steps' = steps + 1
       /\ Save

movePlayerOnBoard(deltaLat, deltaLng) ==
    LET newLocation == [lat |-> location.lat + TILE_DEGREES * deltaLat,
                        lng |-> location.lng + TILE_DEGREES * deltaLng]
    IN /\ running
       /\ steps < MaxSteps
       /\ InRegion(newLocation)
       /\ RelocateOnBoard(newLocation)

watchPositionOnBoard(newLocation) ==
    /\ running
    /\ steps < MaxSteps
    /\ RelocateOnBoard(newLocation)

NextSession ==
    \/ \E cell \in DOMAIN cacheObjs : OpenPopup(cell)
    \/ \E d \in Directions : movePlayerOnBoard(d.vertical, d.horizontal)
    \/ \E p \in SensorPoints : watchPositionOnBoard(p)
    \/ CollectCoin
    \/ depositCoin
    \/ reset

SpecSession == InitSession /\ [][NextSession]_vars

----------------------------------------------------------------------------
(* Properties *)

Range(f) == { f[x] : x \in DOMAIN f }

Last(q) == q[Len(q)]

Sensor == \E p \in SensorPoints : watchPosition(p)

RECURSIVE SumGenerated(_)
SumGenerated(cells) ==
    IF cells = {} THEN 0
    ELSE LET c == CHOOSE x \in cells : TRUE
         IN Len(generateCoinsForCache(c.i, c.j)) + SumGenerated(cells \ {c})

\* C1: every reset leaves the total number of coins (store plus inventory)
\* as it was and leaves the inventory empty.
ResetConservesCoins ==
    [][reset =>
         /\ TotalCoins(cacheStates', inventory') = TotalCoins(cacheStates, inventory)
         /\ inventory' = <<>>]_vars

\* C2: within a session the total number of coins changes only by the coins
\* of the caches that world generation spawns in that step; collect, deposit
\* and reset leave it unchanged.
OnlySpawnChangesTotal ==
    [][(MovePlayer \/ Sensor \/ CollectCoin \/ depositCoin \/ reset) =>
         TotalCoins(cacheStates', inventory') =
           TotalCoins(cacheStates, inventory)
           + SumGenerated(StoredCells(cacheStates') \ StoredCells(cacheStates))]_vars

\* C3: load() of the record written by save(), into a fresh board, makes
\* getCache return for every cell stored at save time a cache with the
\* saved coin list.
LoadRestoresCaches ==
    storage # <<>> =>
        LET l == load(NewPlayer(PLAYER_ORIGIN), EmptyMap, storage, FALSE)
        IN \A c \in StoredCells(saved[1].store) :
              getCache(l.store, c.i, c.j) = getCache(saved[1].store, c.i, c.j)

\* C4: the record written by save() has exactly one pair per store entry,
\* with the cell key in the key field and the momento in the momento field.
RecordPairsNotExchanged ==
    storage # <<>> =>
        storage[1].caches =
            { [key |-> k, momento |-> saved[1].store[k]] : k \in DOMAIN saved[1].store }

\* C5: a restart that finds a record restores the player's location,
\* inventory (same coins, same order) and move history to their values at
\* save time.
LoadRestoresPlayer ==
    [][(Restart /\ saved # <<>>) => ThePlayer' = saved[1].player]_vars

PlayerRestoredWitness ==
    /\ loaded
    /\ saved # <<>>
    /\ ThePlayer = saved[1].player
    /\ Len(inventory) >= 2
    /\ Len(moveHistory) >= 2

\* caches the program holds or can materialize in the current state
LiveCaches ==
    Range(cacheObjs) \cup { getCache(cacheStates, c.i, c.j)[1] : c \in StoredCells(cacheStates) }

\* C6: deserializing the momento of a cache gives a cache with the same
\* (i, j) and the same coin list, and serializing that again gives the same
\* momento.
MomentoRoundTrip ==
    \A c \in LiveCaches :
        LET d == fromMomento(NewCache(c.i, c.j), toMomento(c))
        IN /\ d.i = c.i
           /\ d.j = c.j
           /\ d.coins = c.coins
           /\ toMomento(d) = toMomento(c)

MixedCacheWitness ==
    \E c \in LiveCaches :
        /\ c.i # c.j
        /\ Len(c.coins) >= 2
        /\ \E n \in 1..Len(c.coins) : c.coins[n].i # c.i

\* C7: a collect or deposit on a cell never drops from the store's momento a
\* coin that was there before the handler and is not the coin being
\* collected (nor one the serial filter removes with it).
StoreKeepsReturnedCoins ==
    [][((CollectCoin \/ depositCoin) /\ popupCell # <<>> /\ steps' = steps + 1) =>
         LET cell == popupCell[1]
             before == CoinsAt(cacheStates, cell)
             after == CoinsAt(cacheStates', cell)
         IN \A n \in 1..Len(before) :
               \/ before[n] \in Range(after)
               \/ /\ Len(inventory') > Len(inventory)
                  /\ before[n].serial = Last(inventory').serial]_vars

\* C8: collecting coin c removes from the cache exactly the coins with c's
\* identity (i, j, serial) and appends c to the inventory; every other coin
\* of the cache stays, in order.
CollectRemovesExactlyOne ==
    [][CollectCoin =>
         LET cell == popupCell[1]
             c == Last(inventory')
             other(x) == x # c
         IN /\ inventory' = Append(inventory, c)
            /\ cacheObjs'[cell].coins = SelectSeq(cacheObjs[cell].coins, other)]_vars

\* C9: world generation never changes the momento of a cell that already
\* has one, in a move, a sensor update or the launch after load().
GenerationKeepsMomentos ==
    [][/\ (MovePlayer \/ Sensor) =>
            \A k \in DOMAIN cacheStates :
                k \in DOMAIN cacheStates' /\ cacheStates'[k] = cacheStates[k]
       /\ (Restart /\ running') =>
            LET l == load(NewPlayer(PLAYER_ORIGIN), EmptyMap, storage, FALSE)
            IN \A k \in DOMAIN l.store :
                  k \in DOMAIN cacheStates' /\ cacheStates'[k] = l.store[k]]_vars

ModifiedCacheRevisited ==
    /\ Len(moveHistory) >= 3
    /\ location = moveHistory[Len(moveHistory)]
    /\ \E c \in StoredCells(cacheStates) :
          /\ CoinsAt(cacheStates, c) # generateCoinsForCache(c.i, c.j)
          /\ c \in Range(getCellsNearPoint(location))
          /\ c \notin Range(getCellsNearPoint(moveHistory[Len(moveHistory) - 1]))
          /\ c \in Range(getCellsNearPoint(moveHistory[Len(moveHistory) - 2]))

\* C10: after setCache(i, j, c), getCache(i, j) returns a cache equal to c,
\* whatever was stored under (i, j) before, and no other entry of the store
\* changes.
SetThenGet ==
    \A c \in LiveCaches :
        \A cell \in StoredCells(cacheStates) \cup {[i |-> c.i, j |-> c.j], [i |-> 2, j |-> 2]} :
            LET after == setCache(cacheStates, cell.i, cell.j, c)
            IN /\ getCache(after, cell.i, cell.j) = <<c>>
               /\ DOMAIN after = DOMAIN cacheStates \cup {CellKey(cell.i, cell.j)}
               /\ \A k \in DOMAIN cacheStates \ {CellKey(cell.i, cell.j)} :
                      after[k] = cacheStates[k]

OverwriteWitness ==
    \E c \in Range(cacheObjs) :
        /\ CellKey(c.i, c.j) \in DOMAIN cacheStates
        /\ cacheStates[CellKey(c.i, c.j)] # toMomento(c)

RegionCells ==
    { [i |-> a, j |-> b] :
        a \in (Floor(PLAYER_ORIGIN.lat - SouthSpan, TILE_WIDTH) - TILE_VISIBILITY_RADIUS - 1)
               ..(Floor(PLAYER_ORIGIN.lat + NorthSpan, TILE_WIDTH) + TILE_VISIBILITY_RADIUS + 1),
        b \in (Floor(PLAYER_ORIGIN.lng - WestSpan, TILE_WIDTH) - TILE_VISIBILITY_RADIUS - 1)
               ..(Floor(PLAYER_ORIGIN.lng + EastSpan, TILE_WIDTH) + TILE_VISIBILITY_RADIUS + 1) }

EmptyMomento(c) == toMomento(NewCache(c.i, c.j))

\* C12: getCache signals absence exactly for the cells that have no entry
\* in the store; for a cell whose stored cache has no coins it returns a
\* cache with an empty coin list, and world generation (a move or a sensor
\* update) leaves the momento of such a cell as it is.
EmptyCacheIsNotAbsent ==
    [][/\ \A c \in RegionCells :
             (getCache(cacheStates, c.i, c.j) = <<>>)
               <=> (CellKey(c.i, c.j) \notin DOMAIN cacheStates)
       /\ \A c \in StoredCells(cacheStates) :
             cacheStates[CellKey(c.i, c.j)] = EmptyMomento(c)
               => getCache(cacheStates, c.i, c.j) = <<NewCache(c.i, c.j)>>
       /\ (MovePlayer \/ Sensor) =>
             \A c \in StoredCells(cacheStates) :
                cacheStates[CellKey(c.i, c.j)] = EmptyMomento(c)
                  => /\ CellKey(c.i, c.j) \in DOMAIN cacheStates'
                     /\ cacheStates'[CellKey(c.i, c.j)] = EmptyMomento(c)]_vars

\* a cache that was spawned with coins has been emptied, has left the
\* visibility radius and has come back into it, and is still empty
EmptiedCacheRevisited ==
    /\ Len(moveHistory) >= 3
    /\ location = Last(moveHistory)
    /\ \E c \in StoredCells(cacheStates) :
          /\ cacheStates[CellKey(c.i, c.j)] = EmptyMomento(c)
          /\ generateCoinsForCache(c.i, c.j) # <<>>
          /\ c \in Range(getCellsNearPoint(location))
          /\ c \notin Range(getCellsNearPoint(moveHistory[Len(moveHistory) - 1]))

\* the cache object and the store entry of cell c are those of a cache that
\* has just been spawned
JustSpawned(c, objs, store) ==
    LET count == (luck(<<NumStr(c.i), ",", NumStr(c.j), ",", "coins">>) * 8) \div 1000
        cache == objs[c]
    IN /\ cache.i = c.i
       /\ cache.j = c.j
       /\ count \in 0..7
       /\ Len(cache.coins) = count
       /\ \A n \in 1..count : cache.coins[n] = Coin(c.i, c.j, NumStr(n - 1))
       /\ \A m, n \in 1..count : m < n => cache.coins[m].serial # cache.coins[n].serial
       /\ CellKey(c.i, c.j) \in DOMAIN store
       /\ store[CellKey(c.i, c.j)] = toMomento(cache)
       /\ getCache(store, c.i, c.j) = <<cache>>

\* C13: every cache spawned in a step (at construction, in a launch, a move
\* or a sensor update) holds floor(luck("i,j,coins") * 8) coins, a number
\* from 0 to 7, with serials 0..count-1 in increasing order and origin
\* (i, j), and its momento is in the store when the step ends.
SpawnedCacheContents ==
    [][/\ steps = 0 => \A c \in DOMAIN cacheObjs : JustSpawned(c, cacheObjs, cacheStates)
       /\ Restart => \A c \in DOMAIN cacheObjs' : JustSpawned(c, cacheObjs', cacheStates')
       /\ (MovePlayer \/ Sensor) =>
             \A c \in DOMAIN cacheObjs' \ DOMAIN cacheObjs :
                JustSpawned(c, cacheObjs', cacheStates')]_vars

\* a move has brought a cell into view and spawned a cache with coins there
\* while another cache is no longer as it was spawned
SpawnedByMoveWitness ==
    /\ ~loaded
    /\ Len(moveHistory) = 2
    /\ location = Last(moveHistory)
    /\ \E c \in DOMAIN cacheObjs :
          /\ c \notin Range(getCellsNearPoint(moveHistory[1]))
          /\ c \in Range(getCellsNearPoint(location))
          /\ cacheObjs[c].coins # <<>>
          /\ JustSpawned(c, cacheObjs, cacheStates)
    /\ \E d \in DOMAIN cacheObjs : ~JustSpawned(d, cacheObjs, cacheStates)

\* cells that have been within the visibility radius of a player position
\* of this session
SeenCells == UNION { Range(getCellsNearPoint(p)) : p \in visited }

SpawnDraw(c) == luck(<<NumStr(c.i), ",", NumStr(c.j)>>)

\* C14: in a session started without a record, the cells that have a
\* momento are exactly the cells that have been within the visibility
\* radius of some player position so far and whose spawn draw is below
\* CACHE_SPAWN_PROBABILITY; the store has no other entry, and no cell with a
\* draw at or above the probability has a momento.
MomentosAreLuckySeenCells ==
    ~loaded =>
        /\ StoredCells(cacheStates) =
              { c \in SeenCells : SpawnDraw(c) < CACHE_SPAWN_PROBABILITY }
        /\ DOMAIN cacheStates = { CellKey(c.i, c.j) : c \in StoredCells(cacheStates) }
        /\ \A c \in RegionCells :
              SpawnDraw(c) >= CACHE_SPAWN_PROBABILITY
                => getCache(cacheStates, c.i, c.j) = <<>>

\* the player has been at two positions, holds a coin, and a cache spawned at
\* the other position is out of view
TwoPositionsSeenWitness ==
    /\ ~loaded
    /\ Cardinality(visited) >= 2
    /\ inventory # <<>>
    /\ \E c \in StoredCells(cacheStates) : c \notin Range(getCellsNearPoint(location))
    /\ \E c \in SeenCells : SpawnDraw(c) >= CACHE_SPAWN_PROBABILITY

\* the world that generation alone makes of a covered region
GeneratedCells(region) ==
    { c \in UNION { Range(getCellsNearPoint(p)) : p \in region } :
        SpawnDraw(c) < CACHE_SPAWN_PROBABILITY }

GeneratedCache(c) ==
    [NewCache(c.i, c.j) EXCEPT !.coins = generateCoinsForCache(c.i, c.j)]

GeneratedObjs(region) == [c \in GeneratedCells(region) |-> GeneratedCache(c)]

GeneratedStore(region) ==
    LET cells == GeneratedCells(region)
    IN [k \in { CellKey(c.i, c.j) : c \in cells } |->
          toMomento(GeneratedCache([i |-> StrNum(k[1]), j |-> StrNum(k[3])]))]

PristineWorld(store, objs, region) ==
    /\ store = GeneratedStore(region)
    /\ objs = GeneratedObjs(region)

Pristine == PristineWorld(cacheStates, cacheObjs, visited)

\* C15: in a run that starts without a record and has no collect and no
\* deposit, the spawned cells and their coin lists are a function of the
\* set of positions covered alone, whatever the path and the order: a fresh
\* launch gives the generated world of its position, and every move, sensor
\* update, popup or reset takes the generated world of the positions
\* covered to the generated world of the positions covered afterwards.
FreshRunsReplayable ==
    [][/\ (steps = 0 /\ ~loaded) => Pristine
       /\ (Restart /\ ~loaded') => PristineWorld(cacheStates', cacheObjs', visited')
       /\ (/\ ~loaded
           /\ Pristine
           /\ \/ MovePlayer
              \/ Sensor
              \/ reset
              \/ \E cell \in DOMAIN cacheObjs : OpenPopup(cell))
            => PristineWorld(cacheStates', cacheObjs', visited')]_vars

\* the same two positions covered along a path that returns to the first
ReturnPathWitness ==
    /\ ~loaded
    /\ Pristine
    /\ inventory = <<>>
    /\ Cardinality(visited) = 2
    /\ Len(moveHistory) >= 3
    /\ Cardinality(DOMAIN cacheStates) >= 3

\* the coins of inv minted at cell c, in the order of inv
OriginCoins(inv, c) ==
    LET from(x) == x.i = c.i /\ x.j = c.j IN SelectSeq(inv, from)

\* C16: a reset appends the coins of the inventory, in inventory order, to
\* the stored coin list of the cache at each coin's (i, j), so that every
\* coin of the inventory has a cache to go to, and leaves every other entry
\* of the store as it was.
ResetReturnsInOrder ==
    [][reset =>
         /\ \A n \in 1..Len(inventory) :
               getCache(cacheStates, inventory[n].i, inventory[n].j) # <<>>
         /\ DOMAIN cacheStates' = DOMAIN cacheStates
         /\ \A c \in StoredCells(cacheStates) :
               CoinsAt(cacheStates', c) =
                 CoinsAt(cacheStates, c) \o OriginCoins(inventory, c)
         /\ \A k \in DOMAIN cacheStates :
               (\A n \in 1..Len(inventory) : k # CellKey(inventory[n].i, inventory[n].j))
                 => cacheStates'[k] = cacheStates[k]]_vars

\* C17: after every reset the player is at PLAYER_ORIGIN with an empty
\* inventory and an empty move history.
ResetClearsPlayer ==
    [][reset =>
         /\ location' = PLAYER_ORIGIN
         /\ inventory' = <<>>
         /\ moveHistory' = <<>>]_vars

ResetReturnsEveryCoin ==
    [][reset =>
         /\ inventory' = <<>>
         /\ \A c \in StoredCells(cacheStates') :
               \A n \in 1..Len(CoinsAt(cacheStates', c)) :
                  /\ CoinsAt(cacheStates', c)[n].i = c.i
                  /\ CoinsAt(cacheStates', c)[n].j = c.j]_vars

\* C20: load() on an empty storage is no error: it leaves the new player at
\* PLAYER_ORIGIN with an empty inventory and the store empty, and the launch
\* goes on to generate the world around the player.
LoadWithoutRecord ==
    [][(Restart /\ storage = <<>>) =>
         /\ \A markerThrows \in BOOLEAN :
               LET l == load(NewPlayer(PLAYER_ORIGIN), EmptyMap, storage, markerThrows)
               IN /\ l.ok
                  /\ l.player.location = PLAYER_ORIGIN
                  /\ l.player.inventory = <<>>
                  /\ l.store = EmptyMap
                  /\ cacheStates' = showNearbyCaches(l.store, EmptyMap, l.player.location).store
         /\ running'
         /\ ThePlayer' = NewPlayer(PLAYER_ORIGIN)
         /\ DOMAIN cacheStates' # {}
         /\ visited' = {PLAYER_ORIGIN}]_vars

\* a session that was launched without a record after three handlers
LaunchedWithoutRecord ==
    /\ steps >= 3
    /\ ~loaded
    /\ running
    /\ storage = <<>>
    /\ moveHistory = <<PLAYER_ORIGIN>>
    /\ popupCell = <<>>

\* C21: a restart that finds under the storage key a text that is no
\* record of the game (unparsable, or null) goes on like a restart without
\* a record: no error stops the launch, the player is as constructed and the
\* world is the one generated around PLAYER_ORIGIN from an empty store.
UnparsableRecordIgnored ==
    [][(Restart /\ storage # <<>> /\ IsForeign(storage[1])) =>
         /\ running'
         /\ ThePlayer' = NewPlayer(PLAYER_ORIGIN)
         /\ PristineWorld(cacheStates', cacheObjs', {PLAYER_ORIGIN})]_vars

\* C22: a deposit with an empty inventory changes nothing: the inventory,
\* the Cache objects, the store, the buttons of the popup and the record
\* under the storage key stay as they are, and the game goes on.
EmptyDepositIsNoOp ==
    [][(depositCoin /\ inventory = <<>>) =>
         /\ inventory' = <<>>
         /\ cacheObjs' = cacheObjs
         /\ cacheStates' = cacheStates
         /\ buttons' = buttons
         /\ storage' = storage
         /\ running']_vars

\* a popup is open, the inventory is empty and a record is in the storage
EmptyHandedAtPopup ==
    /\ running
    /\ steps < MaxSteps
    /\ popupCell # <<>>
    /\ inventory = <<>>
    /\ storage # <<>>
    /\ cacheObjs[popupCell[1]].coins # <<>>

\* C23: the inventory is a stack: a collect appends the clicked coin at the
\* end of the inventory, and a deposit with coins in hand removes the last
\* coin, puts that coin at the end of the popup's cache and leaves the coins
\* before it in their order.
InventoryIsStack ==
    [][/\ CollectCoin =>
            \E n \in 1..Len(buttons) : inventory' = Append(inventory, buttons[n])
       /\ (depositCoin /\ inventory # <<>>) =>
            /\ inventory' = SubSeq(inventory, 1, Len(inventory) - 1)
            /\ cacheObjs'[popupCell[1]].coins =
                  Append(cacheObjs[popupCell[1]].coins, Last(inventory))]_vars

\* two coins were collected and the later one was deposited into another
\* cache; the earlier one is still in hand
LaterCoinDeposited ==
    /\ Len(inventory) = 1
    /\ \E c \in DOMAIN cacheObjs :
          /\ cacheObjs[c].coins # <<>>
          /\ Last(cacheObjs[c].coins).i = inventory[1].i
          /\ Last(cacheObjs[c].coins).j = inventory[1].j
          /\ Last(cacheObjs[c].coins).serial = "1"
          /\ inventory[1].serial = "0"
          /\ c.i # inventory[1].i

\* the popup's Cache object and the inventory after collectCoin(cache, c)
\* and, right after it, depositCoin(cache)
CollectThenDeposit(cache, inv, c) ==
    LET collected == [cache EXCEPT !.coins = KeepOthers(cache.coins, c)]
        inHand == Append(inv, c)
    IN [inventory |-> SubSeq(inHand, 1, Len(inHand) - 1),
        cache |-> [collected EXCEPT !.coins = Append(@, Last(inHand))]]

\* C24: wherever a popup is open, collecting a coin c that the cache holds
\* and depositing at once into the same cache gives back the inventory as
\* it was and a cache with the coins it had, c moved to the end, and the
\* store's momento of the cell is the momento of that cache.
CollectDepositRoundTrip ==
    (running /\ popupCell # <<>>) =>
        \A n \in 1..Len(buttons) :
            LET c == buttons[n]
                cache == cacheObjs[popupCell[1]]
                other(x) == x # c
                r == CollectThenDeposit(cache, inventory, c)
            IN c \in Range(cache.coins) =>
                 /\ r.inventory = inventory
                 /\ r.cache.coins = Append(SelectSeq(cache.coins, other), c)
                 /\ getCache(setCache(cacheStates, cache.i, cache.j, r.cache),
                             cache.i, cache.j) = <<r.cache>>

\* C25: right after every collect and every deposit with coins in hand, the
\* store's momento of the popup's cell is the serialization of the Cache
\* object the handler has mutated, getCache gives back that cache, and the
\* save of the same handler has already seen that momento.
SetCacheAfterMutation ==
    [][((CollectCoin \/ (depositCoin /\ inventory # <<>>)) /\ popupCell # <<>>) =>
         LET cell == popupCell[1]
             key == CellKey(cell.i, cell.j)
         IN /\ key \in DOMAIN cacheStates'
            /\ cacheStates'[key] = toMomento(cacheObjs'[cell])
            /\ getCache(cacheStates', cell.i, cell.j) = <<cacheObjs'[cell]>>
            /\ saved' # <<>>
            /\ saved'[1].store[key] = toMomento(cacheObjs'[cell])]_vars

\* a deposit has just put a coin of another cell into the open popup's
\* cache, and the store and the saved snapshot hold the new momento
DepositWrittenThrough ==
    /\ popupCell # <<>>
    /\ inventory = <<>>
    /\ saved # <<>>
    /\ saved[1].store = cacheStates
    /\ LET c == popupCell[1]
       IN /\ cacheObjs[c].coins # <<>>
          /\ Last(cacheObjs[c].coins).i # c.i
          /\ buttons # <<>>
          /\ Last(buttons) = Last(cacheObjs[c].coins)
          /\ cacheStates[CellKey(c.i, c.j)] = toMomento(cacheObjs[c])

\* the entries of a store, and the pairs of a record's cache list, each as
\* the two texts it holds, whichever field holds which
StoreEntries(store) == { {k, store[k]} : k \in DOMAIN store }

RecordEntries(caches) == { {c.key, c.momento} : c \in caches }

\* C26: after every move (by button or by sensor), every collect and every
\* deposit with coins in hand, exactly one record is persisted; its player
\* fields are the player's current location, inventory and move history and
\* its cache list has one pair per entry of the current store, generated
\* caches and the handler's setCache included.
RecordIsSnapshot ==
    [][(MovePlayer \/ Sensor \/ CollectCoin \/ (depositCoin /\ inventory # <<>>)) =>
         /\ Len(storage') = 1
         /\ ~IsForeign(storage'[1])
         /\ storage'[1].player = [location |-> location', inventory |-> inventory',
                                  moveHistory |-> moveHistory']
         /\ RecordEntries(storage'[1].caches) = StoreEntries(cacheStates')
         /\ Cardinality(storage'[1].caches) = Cardinality(DOMAIN cacheStates')]_vars

\* the record written by a move holds the cache that this move generated
RecordHoldsSpawnedCache ==
    /\ location = [lat |-> 3, lng |-> -1]
    /\ Len(moveHistory) = 2
    /\ ~loaded
    /\ storage # <<>>
    /\ storage[1].player.location = location
    /\ \E c \in storage[1].caches : CellKey(2, -1) \in {c.key, c.momento}

CanonicalCells ==
    [][\A point \in BoardPoints :
         (callGetCellForPoint(point) \/ callGetCellsNearPoint(point)) =>
            /\ \A k \in DOMAIN knownCells' :
                  CellKey(knownCells'[k].i, knownCells'[k].j) = k
            /\ \A k \in DOMAIN knownCells :
                  k \in DOMAIN knownCells' /\ knownCells'[k] = knownCells[k]
            /\ \A n \in 1..Len(lastCall'[1].cells) :
                  LET c == lastCall'[1].cells[n]
                  IN /\ CellKey(c.i, c.j) \in DOMAIN knownCells'
                     /\ knownCells'[CellKey(c.i, c.j)] = c
                     /\ lastCall # <<>> =>
                           \A m \in 1..Len(lastCall[1].cells) :
                              LET b == lastCall[1].cells[m]
                              IN (b.i = c.i /\ b.j = c.j) => b = c]_vars

\* getCellForPoint has returned a Cell object that an earlier call of
\* getCellsNearPoint created in its loop
LoopCellReturnedForPoint ==
    /\ lastCall # <<>>
    /\ lastCall[1].method = "getCellForPoint"
    /\ lastCall[1].cells[1].ref[1] < steps - 1
    /\ lastCall[1].cells[1].ref[2] > 0

\* C29: getCellsNearPoint returns (2r+1)^2 cells, no two with the same (i, j),
\* and their (i, j) are exactly the pairs (i0+dx, j0+dy) with |dx| <= r and
\* |dy| <= r around the cell (i0, j0) of the point, in the order the game's
\* showNearbyCaches walks them.
CellsNearIsTheSquare ==
    (lastCall # <<>> /\ lastCall[1].method = "getCellsNearPoint") =>
        LET cells == lastCall[1].cells
            o == getCellForPoint(lastCall[1].point)
            r == TILE_VISIBILITY_RADIUS
        IN /\ Len(cells) = (2 * r + 1) * (2 * r + 1)
           /\ \A m, n \in 1..Len(cells) :
                 m # n => <<cells[m].i, cells[m].j>> # <<cells[n].i, cells[n].j>>
           /\ { <<cells[n].i, cells[n].j>> : n \in 1..Len(cells) } =
                 { <<o.i + dx, o.j + dy>> : dx \in -r..r, dy \in -r..r }
           /\ [n \in 1..Len(cells) |-> [i |-> cells[n].i, j |-> cells[n].j]] =
                 getCellsNearPoint(lastCall[1].point)

\* getCellsNearPoint has returned cells of which some were known before the
\* call and some were made by it, around a cell with a negative column
SquarePartlyKnown ==
    /\ lastCall # <<>>
    /\ lastCall[1].method = "getCellsNearPoint"
    /\ lastCall[1].point.lng < 0
    /\ \E m, n \in 1..Len(lastCall[1].cells) :
          /\ lastCall[1].cells[m].ref[1] < steps - 1
          /\ lastCall[1].cells[n].ref[1] = steps - 1

\* C30: the cell getCellForPoint returns for a point has i and j with
\* i * tileWidth <= lat < (i+1) * tileWidth and j * tileWidth <= lng <
\* (j+1) * tileWidth; for a negative coordinate that is no multiple of
\* tileWidth the index is one less than the quotient rounded towards zero.
CellForPointIsFloor ==
    (lastCall # <<>> /\ lastCall[1].method = "getCellForPoint") =>
        LET p == lastCall[1].point
            c == lastCall[1].cells[1]
            towardsZero(a) == IF a >= 0 THEN a \div TILE_WIDTH
                              ELSE -((-a) \div TILE_WIDTH)
        IN /\ c.i * TILE_WIDTH <= p.lat /\ p.lat < (c.i + 1) * TILE_WIDTH
           /\ c.j * TILE_WIDTH <= p.lng /\ p.lng < (c.j + 1) * TILE_WIDTH
           /\ (p.lat < 0 /\ p.lat % TILE_WIDTH # 0) => c.i = towardsZero(p.lat) - 1
           /\ (p.lng < 0 /\ p.lng % TILE_WIDTH # 0) => c.j = towardsZero(p.lng) - 1

\* getCellForPoint has been called with a point whose latitude is negative
\* and no multiple of tileWidth
NegativeOddLatitudeAsked ==
    /\ lastCall # <<>>
    /\ lastCall[1].method = "getCellForPoint"
    /\ lastCall[1].point.lat < 0
    /\ lastCall[1].point.lat % TILE_WIDTH # 0
    /\ lastCall[1].cells[1].i = -2

\* C31: a move by a direction button puts the player one tile further in that
\* direction, a sensor reading puts the player at the reading; either way the
\* new location is appended as the last entry of the move history, the
\* entries before it stay as they were, and the inventory is unchanged.
MoveToAppends ==
    [][/\ \A d \in Directions :
            movePlayer(d.vertical, d.horizontal) =>
                location' = [lat |-> location.lat + TILE_DEGREES * d.vertical,
                             lng |-> location.lng + TILE_DEGREES * d.horizontal]
       /\ \A p \in SensorPoints : watchPosition(p) => location' = p
       /\ (MovePlayer \/ Sensor) =>
            /\ Len(moveHistory') = Len(moveHistory) + 1
            /\ Last(moveHistory') = location'
            /\ SubSeq(moveHistory', 1, Len(moveHistory)) = moveHistory
            /\ inventory' = inventory]_vars

\* the player, carrying a coin, has moved for the second time at least
MovedTwiceWithCoin ==
    /\ ~loaded
    /\ inventory # <<>>
    /\ Len(moveHistory) >= 3
    /\ Last(moveHistory) = location
    /\ moveHistory[Len(moveHistory) - 1] # location
    /\ saved # <<>>
    /\ saved[1].player.moveHistory = moveHistory

\* C32: while the game runs, every coin of the inventory has the momento of
\* its origin cache (coin.i, coin.j) in the store, so that reset finds a cache
\* for each coin it returns and ends with an empty inventory.
InventoryOriginsStored ==
    running =>
        /\ \A n \in 1..Len(inventory) :
              getCache(cacheStates, inventory[n].i, inventory[n].j) # <<>>
        /\ ReturnCoins(cacheStates, inventory).ok

\* the places that hold a coin: the n-th place of the inventory (cell <<>>)
\* or of the stored coin list of a cell (cell <<c>>)
CoinPlaces ==
    { [cell |-> <<>>, n |-> n] : n \in 1..Len(inventory) }
    \cup UNION { { [cell |-> <<c>>, n |-> n] : n \in 1..Len(CoinsAt(cacheStates, c)) } :
                   c \in StoredCells(cacheStates) }

CoinIn(place) ==
    IF place.cell = <<>> THEN inventory[place.n]
    ELSE CoinsAt(cacheStates, place.cell[1])[place.n]

\* C33: while the game runs, no coin (i, j, serial) is in two places at once:
\* not twice in the inventory, not in the inventory and in a stored coin
\* list, not in two stored coin lists nor twice in one.
NoCoinTwice ==
    running =>
        \A a, b \in CoinPlaces : a # b => CoinIn(a) # CoinIn(b)

\* a key of the form "i,j"
IsCellKey(k) ==
    /\ Len(k) = 3
    /\ k[2] = ","
    /\ \E a, b \in 1..Len(Numerals) : k[1] = Numerals[a] /\ k[3] = Numerals[b]

\* C34: while the game runs, every key of the store has the form "i,j", the
\* momento under it encodes a cache with that i and j, and getCache(i, j)
\* gives a cache with the coordinates (i, j); so too after a launch has
\* installed the cache list of a record.
StoreKeysMatchMomentos ==
    running =>
        \A k \in DOMAIN cacheStates :
            /\ IsCellKey(k)
            /\ LET i == StrNum(k[1])
                   j == StrNum(k[3])
                   decoded == fromMomento(NewCache(0, 0), cacheStates[k])
               IN /\ decoded.i = i
                  /\ decoded.j = j
                  /\ getCache(cacheStates, i, j) # <<>>
                  /\ getCache(cacheStates, i, j)[1].i = i
                  /\ getCache(cacheStates, i, j)[1].j = j

\* C35: while the game runs, the move history is not empty and its last
\* entry is the player's location, and the same holds of the player written
\* into the record in the storage.
HistoryEndsAtLocation ==
    running =>
        /\ moveHistory # <<>>
        /\ Last(moveHistory) = location
        /\ storage # <<>> =>
              /\ storage[1].player.moveHistory # <<>>
              /\ Last(storage[1].player.moveHistory) = storage[1].player.location

\* C36: within a page session the map of known cells and the store only
\* grow.  Every step keeps each known cell's Cell object in the map as it
\* was, the cells getCellsNearPoint returns are the objects of the map, and
\* every key of the store is still a key of the store after the step, reset
\* included.
SessionMapsOnlyGrow ==
    [][/\ \A k \in DOMAIN knownCells :
            k \in DOMAIN knownCells' /\ knownCells'[k] = knownCells[k]
       /\ \A n \in 1..Len(lastCall'[1].cells) :
            LET c == lastCall'[1].cells[n]
            IN /\ CellKey(c.i, c.j) \in DOMAIN knownCells'
               /\ knownCells'[CellKey(c.i, c.j)] = c
       /\ \A k \in DOMAIN cacheStates : k \in DOMAIN cacheStates'
       /\ reset => DOMAIN cacheStates' = DOMAIN cacheStates]_vars

\* after a move north and back a reset has run: the cache spawned in the
\* north still has its momento, and the cells near the origin are the Cell
\* objects made at the launch
GrownMapsAfterReset ==
    /\ moveHistory = <<>>
    /\ storage = <<>>
    /\ Cardinality(visited) = 2
    /\ CellKey(2, -1) \in DOMAIN cacheStates
    /\ CellKey(2, -1) \in DOMAIN knownCells
    /\ knownCells[CellKey(2, -1)].ref[1] = 1
    /\ knownCells[CellKey(0, -1)].ref = <<0, 0>>
    /\ lastCall[1].point = PLAYER_ORIGIN
    /\ lastCall[1].cells[1].ref[1] = 0
    /\ steps = 3

\* C37: the rectangle getCellBounds gives for the cell of a point contains
\* the point: southwest <= point < northeast in latitude and in longitude,
\* for points with negative coordinates too.
CellBoundsContainPoint ==
    (lastCall # <<>> /\ lastCall[1].method = "getCellBounds") =>
        LET p == lastCall[1].point
            b == lastCall[1].bounds
        IN /\ b.southwest.lat <= p.lat /\ p.lat < b.northeast.lat
           /\ b.southwest.lng <= p.lng /\ p.lng < b.northeast.lng
           /\ b.northeast.lat - b.southwest.lat = TILE_WIDTH
           /\ b.northeast.lng - b.southwest.lng = TILE_WIDTH

\* the rectangle of a point with a negative latitude that is no multiple of
\* tileWidth has been computed, for a cell that was known before
BoundsOfNegativePoint ==
    /\ lastCall # <<>>
    /\ lastCall[1].method = "getCellBounds"
    /\ lastCall[1].point = [lat |-> -3, lng |-> 2]
    /\ lastCall[1].bounds.southwest = [lat |-> -4, lng |-> 2]
    /\ lastCall[1].cells[1].ref[1] < steps - 1

====
